---- MODULE Spec2Model ----
(***************************************************************************)
(* Model of src/apis/emscripten/utils.rs: the helpers that copy host       *)
(* values (C strings, stat results, raw buffers) into the linear memory of *)
(* a WebAssembly instance and that ask the guest's exported allocators for *)
(* space.                                                                  *)
(*                                                                         *)
(* Integers of the program are kept as little-endian byte sequences        *)
(* (u32 = 4 bytes, u64 = 8 bytes), which is also how they lie in guest     *)
(* memory; casts and the u32 multiplication are computed on the bytes, so  *)
(* that truncation and wrap-around are the program's.                      *)
(***************************************************************************)
EXTENDS Integers, Sequences, FiniteSets, TLC

\* Longest host string (in bytes) that is passed to the string helpers.
MaxStrLen == 2
\* Longest import list of a module.
MaxImports == 2
\* Size in bytes of guest memory 0.
MemSize == 88

VARIABLES
    memory,           \* guest memory 0: [0..MemSize-1 -> 0..255]
    emscripten_data,  \* Instance.emscripten_data is Some(..) (TRUE) or None
    call              \* the call made: operation, arguments, outcome, effects

vars == <<memory, emscripten_data, call>>

----------------------------------------------------------------------------
\* Values

Min(a, b) == IF a < b THEN a ELSE b

\* Bytes that occur in host strings and buffers: NUL, 'h', and the two bytes
\* of U+00E9 (0xC3 0xA9), each of which alone is invalid UTF-8.
HostBytes == {0, 104, 195, 169}

SeqsUpTo(S, n) == UNION {[1..k -> S] : k \in 0..n}

RECURSIVE ToBytes(_, _)
\* The w low bytes of n, little-endian (n < 2^31).
ToBytes(n, w) == IF w = 0 THEN <<>> ELSE <<n % 256>> \o ToBytes(n \div 256, w - 1)

RECURSIVE FromBytes(_)
\* The number a little-endian byte sequence stands for (values < 2^31 only).
FromBytes(b) == IF b = <<>> THEN 0 ELSE Head(b) + 256 * FromBytes(Tail(b))

\* `value as T` of Rust for integer types: narrowing keeps the low bytes,
\* widening sign-extends a signed source and zero-extends an unsigned one.
CastAs(bytes, signed, width) ==
    IF width <= Len(bytes)
    THEN SubSeq(bytes, 1, width)
    ELSE bytes \o [i \in 1..(width - Len(bytes)) |->
                      IF signed /\ bytes[Len(bytes)] >= 128 THEN 255 ELSE 0]

RECURSIVE MulCarry(_, _, _)
\* bytes * k + carry, exact, as Len(bytes)+1 little-endian bytes (k <= 8).
MulCarry(bytes, k, carry) ==
    IF bytes = <<>> THEN <<carry>>
    ELSE LET p == Head(bytes) * k + carry
         IN  <<p % 256>> \o MulCarry(Tail(bytes), k, p \div 256)

\* The exact product count * size (5 bytes).
WideMul(count, size) == MulCarry(count, size, 0)

----------------------------------------------------------------------------
\* The Instance collaborator

\* Instance::memory_offset_addr(index, offset): the host address of byte
\* `offset` of memory `index`.
memory_offset_addr(index, offset) == [mem |-> index, off |-> offset]

\* ptr.add(i)
PtrAdd(ptr, i) == [ptr EXCEPT !.off = @ + i]

\* Effects of a call, in program order.
MallocEv(size, ret) == [kind |-> "malloc", size |-> size, ret |-> ret]
StackAllocEv(size, ret) == [kind |-> "stack_alloc", size |-> size, ret |-> ret]
WriteEv(ptr, bytes) == [kind |-> "write", ptr |-> ptr, bytes |-> bytes]
DebugEv(value) == [kind |-> "debug", value |-> value]

NoView == [ptr |-> memory_offset_addr(0, 0), count |-> <<>>, elem |-> 0]

\* How a call ends: it returns (an offset in `ret`, or a bool in `flag`, and
\* for the stack helpers a slice in `view`), or it panics.
Returned(ret, view, events) ==
    [outcome |-> "returned", ret |-> ret, flag |-> FALSE, view |-> view,
     events |-> events]
ReturnedBool(flag) ==
    [outcome |-> "returned", ret |-> 0, flag |-> flag, view |-> NoView,
     events |-> <<>>]
Panicked(events) ==
    [outcome |-> "panicked", ret |-> 0, flag |-> FALSE, view |-> NoView,
     events |-> events]

\* One store through a pointer into memory 0.
Store(mem, ev) ==
    [a \in DOMAIN mem |->
        IF a >= ev.ptr.off /\ a < ev.ptr.off + Len(ev.bytes)
        THEN ev.bytes[a - ev.ptr.off + 1] ELSE mem[a]]

RECURSIVE ApplyEvents(_, _)
\* Memory after the stores among `events`, applied in order.
ApplyEvents(mem, events) ==
    IF events = <<>> THEN mem
    ELSE ApplyEvents(IF Head(events).kind = "write" THEN Store(mem, Head(events))
                     ELSE mem, Tail(events))

----------------------------------------------------------------------------
\* is_emscripten_module

RECURSIVE is_emscripten_module_either(_)
\* Mutant: `||` for `&&` in the test of an import.
is_emscripten_module_either(imported_funcs) ==
    IF imported_funcs = <<>> THEN FALSE
    ELSE LET module == Head(imported_funcs)[1]
             field == Head(imported_funcs)[2]
         IN  IF field = "_emscripten_memcpy_big" \/ module = "env"
             THEN TRUE
             ELSE is_emscripten_module_either(Tail(imported_funcs))

RECURSIVE is_emscripten_module(_)
is_emscripten_module(imported_funcs) ==
    IF imported_funcs = <<>> THEN FALSE
    ELSE LET module == Head(imported_funcs)[1]
             field == Head(imported_funcs)[2]
         IN  IF field = "_emscripten_memcpy_big" /\ module = "env"
             THEN TRUE
             ELSE is_emscripten_module(Tail(imported_funcs))

----------------------------------------------------------------------------
\* write_to_buf

\* Mutant: the loop stops one byte early.
write_to_buf_short(string, buf, max) ==
    LET buf_addr == memory_offset_addr(0, buf)
    IN  Returned(buf, NoView,
                 [i \in 1..(max - 1) |->
                     WriteEv(PtrAdd(buf_addr, i - 1), <<string[i]>>)])

write_to_buf(string, buf, max) ==
    LET buf_addr == memory_offset_addr(0, buf)
    IN  Returned(buf, NoView,
                 [i \in 1..max |-> WriteEv(PtrAdd(buf_addr, i - 1), <<string[i]>>)])

----------------------------------------------------------------------------
\* copy_cstr_into_wasm

RECURSIVE CStrFromPtr(_)
\* CStr::from_ptr(p): the bytes at p up to, not including, the first NUL.
CStrFromPtr(buffer) ==
    IF Head(buffer) = 0 THEN <<>> ELSE <<Head(buffer)>> \o CStrFromPtr(Tail(buffer))

IsCont(b, lo, hi) == b >= lo /\ b <= hi

RECURSIVE IsValidUtf8(_)
\* CStr::to_str / str::from_utf8: whether the bytes are well-formed UTF-8.
IsValidUtf8(b) ==
    IF b = <<>> THEN TRUE
    ELSE LET first == b[1]
             n == Len(b)
         IN  IF first < 128 THEN IsValidUtf8(Tail(b))
             ELSE IF first >= 194 /\ first <= 223
             THEN /\ n >= 2
                  /\ IsCont(b[2], 128, 191)
                  /\ IsValidUtf8(SubSeq(b, 3, n))
             ELSE IF first >= 224 /\ first <= 239
             THEN /\ n >= 3
                  /\ \/ first = 224 /\ IsCont(b[2], 160, 191)
                     \/ first \in (225..236) \cup {238, 239} /\ IsCont(b[2], 128, 191)
                     \/ first = 237 /\ IsCont(b[2], 128, 159)
                  /\ IsCont(b[3], 128, 191)
                  /\ IsValidUtf8(SubSeq(b, 4, n))
             ELSE IF first >= 240 /\ first <= 244
             THEN /\ n >= 4
                  /\ \/ first = 240 /\ IsCont(b[2], 144, 191)
                     \/ first \in 241..243 /\ IsCont(b[2], 128, 191)
                     \/ first = 244 /\ IsCont(b[2], 128, 143)
                  /\ IsCont(b[3], 128, 191)
                  /\ IsCont(b[4], 128, 191)
                  /\ IsValidUtf8(SubSeq(b, 5, n))
             ELSE FALSE

\* Mutant: the terminating zero is not stored.
copy_cstr_into_wasm_no_terminator(data, cstr, malloc_ret) ==
    LET s == CStrFromPtr(cstr)
    IN  IF ~IsValidUtf8(s) THEN Panicked(<<>>)
        ELSE IF ~data THEN Panicked(<<>>)
        ELSE
        LET cstr_len == Len(s)
            raw_memory == memory_offset_addr(0, malloc_ret)
        IN  Returned(malloc_ret, NoView,
                <<MallocEv(ToBytes(cstr_len + 1, 4), malloc_ret)>>
                \o [i \in 1..cstr_len |->
                       WriteEv(PtrAdd(raw_memory, i - 1), <<s[i]>>)])

\* Mutant: the bytes are taken as text unchecked (from_utf8_unchecked).
copy_cstr_into_wasm_unchecked(data, cstr, malloc_ret) ==
    LET s == CStrFromPtr(cstr)
    IN  IF ~data THEN Panicked(<<>>)
        ELSE
        LET cstr_len == Len(s)
            raw_memory == memory_offset_addr(0, malloc_ret)
        IN  Returned(malloc_ret, NoView,
                <<MallocEv(ToBytes(cstr_len + 1, 4), malloc_ret)>>
                \o [i \in 1..cstr_len |->
                       WriteEv(PtrAdd(raw_memory, i - 1), <<s[i]>>)]
                \o <<WriteEv(PtrAdd(raw_memory, cstr_len), <<0>>)>>)

\* Mutant: malloc is asked for cstr_len bytes, without the terminator's.
copy_cstr_into_wasm_malloc_len(data, cstr, malloc_ret) ==
    LET s == CStrFromPtr(cstr)
    IN  IF ~IsValidUtf8(s) THEN Panicked(<<>>)
        ELSE IF ~data THEN Panicked(<<>>)
        ELSE
        LET cstr_len == Len(s)
            raw_memory == memory_offset_addr(0, malloc_ret)
        IN  Returned(malloc_ret, NoView,
                <<MallocEv(ToBytes(cstr_len, 4), malloc_ret)>>
                \o [i \in 1..cstr_len |->
                       WriteEv(PtrAdd(raw_memory, i - 1), <<s[i]>>)]
                \o <<WriteEv(PtrAdd(raw_memory, cstr_len), <<0>>)>>)

\* `data` is whether instance.emscripten_data is Some; `malloc_ret` is the
\* offset the guest's malloc export answers with.
copy_cstr_into_wasm(data, cstr, malloc_ret) ==
    LET s == CStrFromPtr(cstr)
    IN  IF ~IsValidUtf8(s) THEN Panicked(<<>>)         \* to_str().unwrap()
        ELSE IF ~data THEN Panicked(<<>>)              \* as_ref().unwrap()
        ELSE
        LET cstr_len == Len(s)
            space_offset == malloc_ret
            raw_memory == memory_offset_addr(0, space_offset)
            slice_len == cstr_len
        IN  Returned(space_offset, NoView,
                <<MallocEv(ToBytes(cstr_len + 1, 4), space_offset)>>
                \o [i \in 1..Min(cstr_len, slice_len) |->
                       WriteEv(PtrAdd(raw_memory, i - 1), <<s[i]>>)]
                \o <<WriteEv(PtrAdd(raw_memory, cstr_len), <<0>>)>>)

----------------------------------------------------------------------------
\* allocate_on_stack, allocate_cstr_on_stack

\* Mutant: missing runtime data is skipped over (offset 0, nothing allocated)
\* instead of unwrapped.
allocate_on_stack_or_default(data, count, size, stack_ret, overflow_checks) ==
    IF ~data
    THEN Returned(0, [ptr |-> memory_offset_addr(0, 0), count |-> count,
                      elem |-> size], <<>>)
    ELSE
    LET wide == WideMul(count, size)
    IN  IF wide[5] # 0 /\ overflow_checks THEN Panicked(<<>>)
        ELSE Returned(stack_ret,
                      [ptr |-> memory_offset_addr(0, stack_ret), count |-> count,
                       elem |-> size],
                      <<StackAllocEv(SubSeq(wide, 1, 4), stack_ret)>>)

\* `size` is size_of::<T>(); `overflow_checks` is whether the build panics on
\* arithmetic overflow (debug) or wraps (release); `stack_ret` is the offset
\* the guest's stack_alloc export answers with.
allocate_on_stack(data, count, size, stack_ret, overflow_checks) ==
    IF ~data THEN Panicked(<<>>)                       \* as_ref().unwrap()
    ELSE
    LET wide == WideMul(count, size)
    IN  IF wide[5] # 0 /\ overflow_checks THEN Panicked(<<>>)
        ELSE
        LET offset == stack_ret
            addr == memory_offset_addr(0, offset)
        IN  Returned(offset, [ptr |-> addr, count |-> count, elem |-> size],
                     <<StackAllocEv(SubSeq(wide, 1, 4), offset)>>)

\* Mutant: room is asked for s.len() bytes, so the zip drops the terminator.
allocate_cstr_on_stack_no_room(data, s, stack_ret, overflow_checks) ==
    LET alloc == allocate_on_stack(data, ToBytes(Len(s), 4), 1, stack_ret,
                                   overflow_checks)
    IN  IF alloc.outcome = "panicked" THEN alloc
        ELSE
        LET slice == alloc.view
            chained == s \o <<0>>
        IN  Returned(alloc.ret, slice,
                alloc.events
                \o [i \in 1..Min(Len(chained), FromBytes(slice.count)) |->
                       WriteEv(PtrAdd(slice.ptr, (i - 1) * slice.elem), <<chained[i]>>)])

allocate_cstr_on_stack(data, s, stack_ret, overflow_checks) ==
    LET alloc == allocate_on_stack(data, ToBytes(Len(s) + 1, 4), 1, stack_ret,
                                   overflow_checks)
    IN  IF alloc.outcome = "panicked" THEN alloc
        ELSE
        LET offset == alloc.ret
            slice == alloc.view
            chained == s \o <<0>>
        IN  Returned(offset, slice,
                alloc.events
                \o [i \in 1..Min(Len(chained), FromBytes(slice.count)) |->
                       WriteEv(PtrAdd(slice.ptr, (i - 1) * slice.elem), <<chained[i]>>)])

----------------------------------------------------------------------------
\* copy_terminated_array_of_cstrs

RECURSIVE CountUntilNull(_)
\* The pointers of the array before its first null one (0 is the null pointer).
CountUntilNull(cstrs) ==
    IF Head(cstrs) = 0 THEN 0 ELSE 1 + CountUntilNull(Tail(cstrs))

copy_terminated_array_of_cstrs(cstrs) ==
    LET total_num == CountUntilNull(cstrs)
    IN  Returned(0, NoView, <<DebugEv(total_num)>>)

----------------------------------------------------------------------------
\* GuestStat, copy_stat_into_wasm

\* #[repr(C)] struct GuestStat: the fields in order, with their widths in bytes.
GuestStat ==
    << <<"st_dev", 4>>, <<"__st_dev_padding", 4>>, <<"__st_ino_truncated", 4>>,
       <<"st_mode", 4>>, <<"st_nlink", 4>>, <<"st_uid", 4>>, <<"st_gid", 4>>,
       <<"st_rdev", 4>>, <<"__st_rdev_padding", 4>>, <<"st_size", 4>>,
       <<"st_blksize", 4>>, <<"st_blocks", 4>>, <<"st_atime", 8>>,
       <<"st_mtime", 8>>, <<"st_ctime", 8>>, <<"st_ino", 8>> >>

AlignUp(n, a) == ((n + a - 1) \div a) * a

RECURSIVE LayoutOffset(_)
\* repr(C): field i starts at the end of field i-1, rounded up to its alignment.
LayoutOffset(i) ==
    IF i = 1 THEN 0
    ELSE AlignUp(LayoutOffset(i - 1) + GuestStat[i - 1][2], GuestStat[i][2])

FieldIndex(name) == CHOOSE i \in 1..Len(GuestStat) : GuestStat[i][1] = name
FieldOffset(name) == LayoutOffset(FieldIndex(name))
FieldWidth(name) == GuestStat[FieldIndex(name)][2]
SizeOfGuestStat ==
    AlignUp(LayoutOffset(Len(GuestStat)) + GuestStat[Len(GuestStat)][2], 8)

\* libc::stat of the host (x86_64 Linux): whether each field is a signed type.
\* st_dev, st_ino, st_nlink, st_rdev are u64; st_mode, st_uid, st_gid are u32;
\* st_size, st_blksize, st_blocks and the times are i64.
HostSigned ==
    [st_dev |-> FALSE, st_ino |-> FALSE, st_nlink |-> FALSE, st_mode |-> FALSE,
     st_uid |-> FALSE, st_gid |-> FALSE, st_rdev |-> FALSE, st_size |-> TRUE,
     st_blksize |-> TRUE, st_blocks |-> TRUE, st_atime |-> TRUE,
     st_mtime |-> TRUE, st_ctime |-> TRUE]

\* (*stat_ptr).field = value as _
SetField(stat_ptr, field, value, signed) ==
    WriteEv(PtrAdd(stat_ptr, FieldOffset(field)),
            CastAs(value, signed, FieldWidth(field)))

\* (*stat_ptr).field = literal
SetConst(stat_ptr, field, n) ==
    WriteEv(PtrAdd(stat_ptr, FieldOffset(field)), ToBytes(n, FieldWidth(field)))

\* The assignments of copy_stat_into_wasm through stat_ptr, in order, in the
\* build for a host that is not Windows (st_blocks is the host's).
GuestStatStores(stat_ptr, stat) ==
    << SetField(stat_ptr, "st_dev", stat.st_dev, HostSigned.st_dev),
       SetConst(stat_ptr, "__st_dev_padding", 0),
       SetField(stat_ptr, "__st_ino_truncated", stat.st_ino, HostSigned.st_ino),
       SetField(stat_ptr, "st_mode", stat.st_mode, HostSigned.st_mode),
       SetField(stat_ptr, "st_nlink", stat.st_nlink, HostSigned.st_nlink),
       SetField(stat_ptr, "st_uid", stat.st_uid, HostSigned.st_uid),
       SetField(stat_ptr, "st_gid", stat.st_gid, HostSigned.st_gid),
       SetField(stat_ptr, "st_rdev", stat.st_rdev, HostSigned.st_rdev),
       SetConst(stat_ptr, "__st_rdev_padding", 0),
       SetField(stat_ptr, "st_size", stat.st_size, HostSigned.st_size),
       SetConst(stat_ptr, "st_blksize", 4096),
       SetField(stat_ptr, "st_blocks", stat.st_blocks, HostSigned.st_blocks),
       SetField(stat_ptr, "st_atime", stat.st_atime, HostSigned.st_atime),
       SetField(stat_ptr, "st_mtime", stat.st_mtime, HostSigned.st_mtime),
       SetField(stat_ptr, "st_ctime", stat.st_ctime, HostSigned.st_ctime),
       SetField(stat_ptr, "st_ino", stat.st_ino, HostSigned.st_ino) >>

\* Mutant: the last assignment (st_ino) is missing.
copy_stat_into_wasm_no_tail(buf, stat) ==
    LET stat_ptr == memory_offset_addr(0, buf)
        stores == GuestStatStores(stat_ptr, stat)
    IN  Returned(0, NoView, SubSeq(stores, 1, Len(stores) - 1))

\* Mutant: the tail st_ino is assigned the inode narrowed to 32 bits.
copy_stat_into_wasm_ino32(buf, stat) ==
    LET stat_ptr == memory_offset_addr(0, buf)
        stores == GuestStatStores(stat_ptr, stat)
    IN  Returned(0, NoView,
                 [stores EXCEPT ![Len(stores)] =
                     SetField(stat_ptr, "st_ino", CastAs(stat.st_ino, FALSE, 4), FALSE)])

copy_stat_into_wasm(buf, stat) ==
    LET stat_ptr == memory_offset_addr(0, buf)
    IN  Returned(0, NoView, GuestStatStores(stat_ptr, stat))

----------------------------------------------------------------------------
\* Inputs

\* Host buffers: a few bytes of host memory a pointer argument points at.
HostBuffers == SeqsUpTo(HostBytes, MaxStrLen + 1) \ {<<>>}

HasNul(b) == \E i \in 1..Len(b) : b[i] = 0

\* Null-terminated host strings (the precondition of CStr::from_ptr); bytes
\* may follow the terminator.
CStrings == {b \in HostBuffers : HasNul(b)}

\* Values of type &str: well-formed UTF-8, NUL allowed.
Strs == {s \in SeqsUpTo(HostBytes, MaxStrLen) : IsValidUtf8(s)}

\* Null-terminated arrays of pointers (0 null, 1 a string).
PtrArrays == {b \in SeqsUpTo({0, 1}, MaxStrLen + 1) : b # <<>> /\ HasNul(b)}

\* Offsets the guest's allocators answer with: 0 (also malloc's "failed")
\* and offsets inside the memory.
GuestOffsets == {0, 3}

\* Offsets a caller passes for a GuestStat or a raw buffer.
BufOffsets == {0, 5}

Fits(offset, n) == offset + n <= MemSize

\* u32 element counts, little-endian: 0, 1, 3, 2^29, 2^30, 2^32 - 1.
Counts == {ToBytes(0, 4), ToBytes(1, 4), ToBytes(3, 4), <<0, 0, 0, 32>>,
           <<0, 0, 0, 64>>, <<255, 255, 255, 255>>}

\* size_of::<T>() of the element types used with allocate_on_stack.
ElemSizes == {1, 4, 8}

\* 64-bit inode numbers, little-endian: 1, 2^32 - 1, 2^32 + 7, 2^64 - 2^32.
Inodes == { <<1, 0, 0, 0, 0, 0, 0, 0>>, <<255, 255, 255, 255, 0, 0, 0, 0>>,
            <<7, 0, 0, 0, 1, 0, 0, 0>>, <<0, 0, 0, 0, 255, 255, 255, 255>> }

U64(n) == ToBytes(n, 8)
U32(n) == ToBytes(n, 4)

\* Host stat results: a regular file and an empty file with negative times.
HostStats ==
    { [st_dev |-> U64(2049), st_ino |-> ino, st_nlink |-> U64(1),
       st_mode |-> U32(33188), st_uid |-> U32(1000), st_gid |-> U32(100),
       st_rdev |-> U64(0), st_size |-> U64(70000), st_blksize |-> U64(512),
       st_blocks |-> U64(137), st_atime |-> U64(1500000000),
       st_mtime |-> U64(1500000001), st_ctime |-> U64(1500000002)]
      : ino \in Inodes }
    \cup
    { [st_dev |-> <<1, 0, 0, 0, 9, 0, 0, 0>>, st_ino |-> ino, st_nlink |-> U64(2),
       st_mode |-> U32(16877), st_uid |-> U32(0), st_gid |-> U32(0),
       st_rdev |-> <<4, 0, 0, 0, 1, 0, 0, 0>>, st_size |-> U64(0),
       st_blksize |-> U64(4096), st_blocks |-> U64(0),
       st_atime |-> <<255, 255, 255, 255, 255, 255, 255, 255>>,
       st_mtime |-> U64(0), st_ctime |-> U64(5)]
      : ino \in {<<7, 0, 0, 0, 1, 0, 0, 0>>} }

----------------------------------------------------------------------------
\* The calls

\* No call made yet on the instance whose memory is mem.
Idle(mem) ==
    [op |-> "none", args |-> [none |-> 0], outcome |-> "none", ret |-> 0,
     flag |-> FALSE, view |-> NoView, events |-> <<>>, pre |-> mem]

\* A call: its arguments by name, how it ended, its effects in order, and
\* guest memory as it was before.
Record(op, args, eff) ==
    [op |-> op, args |-> args, outcome |-> eff.outcome, ret |-> eff.ret,
     flag |-> eff.flag, view |-> eff.view, events |-> eff.events,
     pre |-> memory]

\* A call on the instance. The helpers keep no state of their own: what one
\* call leaves behind for the next is guest memory, over which Init ranges,
\* so a behaviour is one call from any of the instance's initial states.
Ready == call.op = "none"

Do(op, args, eff) ==
    /\ memory' = ApplyEvents(memory, eff.events)
    /\ call' = Record(op, args, eff)
    /\ UNCHANGED emscripten_data

Imports == SeqsUpTo({"env", "wasi_unstable"} \X {"_emscripten_memcpy_big", "fd_write"},
                    MaxImports)

CallIsEmscriptenModule ==
    \E m \in Imports :
        /\ Ready
        /\ Do("is_emscripten_module", [imported_funcs |-> m],
              ReturnedBool(is_emscripten_module(m)))

CallWriteToBuf ==
    \E string \in HostBuffers, buf \in BufOffsets, max \in 0..(MaxStrLen + 1) :
        /\ Ready
        /\ max <= Len(string)
        /\ Fits(buf, max)
        /\ Do("write_to_buf", [string |-> string, buf |-> buf, max |-> max],
              write_to_buf(string, buf, max))

CallCopyCstrIntoWasm ==
    \E cstr \in CStrings, malloc_ret \in GuestOffsets :
        /\ Ready
        /\ Fits(malloc_ret, Len(cstr))
        /\ Do("copy_cstr_into_wasm", [cstr |-> cstr],
              copy_cstr_into_wasm(emscripten_data, cstr, malloc_ret))

CallAllocateOnStack ==
    \E count \in Counts, size \in ElemSizes, stack_ret \in GuestOffsets,
       overflow_checks \in BOOLEAN :
        /\ Ready
        /\ Do("allocate_on_stack", [count |-> count, size |-> size],
              allocate_on_stack(emscripten_data, count, size, stack_ret, overflow_checks))

CallAllocateCstrOnStack ==
    \E s \in Strs, stack_ret \in GuestOffsets, overflow_checks \in BOOLEAN :
        /\ Ready
        /\ Fits(stack_ret, Len(s) + 1)
        /\ Do("allocate_cstr_on_stack", [s |-> s],
              allocate_cstr_on_stack(emscripten_data, s, stack_ret, overflow_checks))

CallCopyTerminatedArrayOfCstrs ==
    \E cstrs \in PtrArrays :
        /\ Ready
        /\ Do("copy_terminated_array_of_cstrs", [cstrs |-> cstrs],
              copy_terminated_array_of_cstrs(cstrs))

CallCopyStatIntoWasm ==
    \E buf \in BufOffsets, stat \in HostStats :
        /\ Ready
        /\ Fits(buf, SizeOfGuestStat)
        /\ Do("copy_stat_into_wasm", [buf |-> buf, stat |-> stat],
              copy_stat_into_wasm(buf, stat))

\* Contents of guest memory 0 when a call is made: zeroed, a constant fill,
\* and a varied image without zero bytes (what the guest or an earlier call
\* left there).
MemoryImages ==
    { [a \in 0..(MemSize - 1) |-> 0],
      [a \in 0..(MemSize - 1) |-> 238],
      [a \in 0..(MemSize - 1) |-> ((a * 37 + 11) % 251) + 1] }

Init ==
    /\ memory \in MemoryImages
    /\ emscripten_data \in BOOLEAN
    /\ call = Idle(memory)

Next ==
    \/ CallIsEmscriptenModule
    \/ CallWriteToBuf
    \/ CallCopyCstrIntoWasm
    \/ CallAllocateOnStack
    \/ CallAllocateCstrOnStack
    \/ CallCopyTerminatedArrayOfCstrs
    \/ CallCopyStatIntoWasm

Spec == Init /\ [][Next]_vars

----------------------------------------------------------------------------
\* Reading a call's effects

Op(name) == call.op = name
Args == call.args

EventsOfKind(kind) == {i \in 1..Len(call.events) : call.events[i].kind = kind}

\* The guest addresses one store covers.
StoreAddrs(ev) == {ev.ptr.off + k : k \in 0..(Len(ev.bytes) - 1)}

\* The guest addresses the call stored to.
WrittenAddrs == UNION {StoreAddrs(call.events[i]) : i \in EventsOfKind("write")}

RECURSIVE SumLen(_)
SumLen(events) ==
    IF events = <<>> THEN 0
    ELSE (IF Head(events).kind = "write" THEN Len(Head(events).bytes) ELSE 0)
         + SumLen(Tail(events))

\* The number of bytes the call stored.
BytesWritten == SumLen(call.events)

\* Guest memory bytes [offset, offset + n).
MemBytes(mem, offset, n) == [i \in 1..n |-> mem[offset + i - 1]]

RECURSIVE ReadCStr(_, _)
\* The string read back from guest memory at offset, up to its terminator.
ReadCStr(mem, offset) ==
    IF offset \notin DOMAIN mem \/ mem[offset] = 0 THEN <<>>
    ELSE <<mem[offset]>> \o ReadCStr(mem, offset + 1)

NoEffect == call.events = <<>> /\ memory = call.pre

----------------------------------------------------------------------------
\* C1

EmscriptenImport == <<"env", "_emscripten_memcpy_big">>

\* C1: is_emscripten_module(M) is true exactly when M's import list holds the
\* pair ("env", "_emscripten_memcpy_big"); so it is false for the empty list
\* and when the two names only occur in different pairs; it changes no state.
C1_DetectsExactlyThePair ==
    Op("is_emscripten_module") =>
        /\ call.outcome = "returned"
        /\ call.flag = (\E i \in 1..Len(Args.imported_funcs) :
                            Args.imported_funcs[i] = EmscriptenImport)
        /\ (Args.imported_funcs = <<>> => call.flag = FALSE)
        /\ NoEffect

\* A module whose second import is the pair, after one that shares its "env".
C1_Witness ==
    /\ Op("is_emscripten_module")
    /\ Args.imported_funcs = << <<"env", "fd_write">>, EmscriptenImport >>
    /\ call.flag = TRUE

----------------------------------------------------------------------------
\* C2

\* C2: with runtime data attached, copy_cstr_into_wasm of a valid UTF-8 host
\* string S of length L stores exactly L+1 bytes at the returned offset: S's
\* bytes, then a zero; reading back up to the terminator yields S.
C2_CopiesStringAndTerminator ==
    (Op("copy_cstr_into_wasm") /\ emscripten_data
        /\ IsValidUtf8(CStrFromPtr(Args.cstr))) =>
        LET S == CStrFromPtr(Args.cstr)
            L == Len(S)
        IN  /\ call.outcome = "returned"
            /\ BytesWritten = L + 1
            /\ WrittenAddrs = call.ret..(call.ret + L)
            /\ MemBytes(memory, call.ret, L) = S
            /\ memory[call.ret + L] = 0
            /\ ReadCStr(memory, call.ret) = S

\* The two-byte string U+00E9 copied to a non-zero offset over non-zero bytes,
\* from a host buffer that goes on after the terminator.
C2_Witness ==
    /\ Op("copy_cstr_into_wasm")
    /\ emscripten_data
    /\ Args.cstr = <<195, 169, 0>>
    /\ call.outcome = "returned"
    /\ call.ret > 0
    /\ call.pre[call.ret + 2] # 0
    /\ memory[call.ret + 2] = 0

----------------------------------------------------------------------------
\* C3

\* C3: without runtime data, copy_cstr_into_wasm, allocate_on_stack and
\* allocate_cstr_on_stack abort: nothing is returned, no allocator export is
\* invoked and no guest byte is stored.
C3_NoRuntimeDataAborts ==
    (~emscripten_data
        /\ call.op \in {"copy_cstr_into_wasm", "allocate_on_stack",
                        "allocate_cstr_on_stack"}) =>
        /\ call.outcome = "panicked"
        /\ EventsOfKind("malloc") = {}
        /\ EventsOfKind("stack_alloc") = {}
        /\ EventsOfKind("write") = {}
        /\ memory = call.pre

\* A valid string handed to allocate_cstr_on_stack on such an instance.
C3_Witness ==
    /\ ~emscripten_data
    /\ Op("allocate_cstr_on_stack")
    /\ Args.s = <<104, 104>>
    /\ call.outcome = "panicked"

----------------------------------------------------------------------------
\* C4

\* C4 as stated: host bytes that are not valid text make copy_cstr_into_wasm
\* fail with a decoding error the caller can recover from, guest memory
\* unchanged.
C4_DecodeErrorIsRecoverable ==
    (Op("copy_cstr_into_wasm") /\ ~IsValidUtf8(CStrFromPtr(Args.cstr))) =>
        /\ call.outcome = "decoding_error"
        /\ memory = call.pre

\* C4, amended: host bytes that are not valid text make copy_cstr_into_wasm
\* abort (a panic, not an error value): malloc is not invoked and guest
\* memory is unchanged.
C4_InvalidTextAborts ==
    (Op("copy_cstr_into_wasm") /\ ~IsValidUtf8(CStrFromPtr(Args.cstr))) =>
        /\ call.outcome = "panicked"
        /\ EventsOfKind("malloc") = {}
        /\ NoEffect

\* A lone lead byte 0xC3 before the terminator, runtime data attached.
C4_Witness ==
    /\ Op("copy_cstr_into_wasm")
    /\ emscripten_data
    /\ Args.cstr = <<104, 195, 0>>
    /\ call.outcome = "panicked"

----------------------------------------------------------------------------
\* C5

\* Field i of the GuestStat at buf was stored by the call, whole.
FieldSet(buf, i) ==
    \E e \in EventsOfKind("write") :
        /\ call.events[e].ptr.off = buf + LayoutOffset(i)
        /\ Len(call.events[e].bytes) = GuestStat[i][2]

AllFieldsSet(buf) == \A i \in 1..Len(GuestStat) : FieldSet(buf, i)

\* C5 as stated: copy_stat_into_wasm sets all fields or fails before any
\* store, and it fails, before the first store, when the instance has no
\* runtime data (its only failure).
C5_FailsWithoutRuntimeData ==
    Op("copy_stat_into_wasm") =>
        IF emscripten_data
        THEN call.outcome = "returned" /\ AllFieldsSet(Args.buf)
        ELSE call.outcome = "panicked" /\ NoEffect

\* C5, amended: copy_stat_into_wasm never writes a GuestStat in part: every
\* call returns with all sixteen fields of the record at guest_offset stored
\* and nothing outside the record touched, whether or not runtime data is
\* attached (it does not look at the runtime data and has no failure).
C5_AlwaysWritesWholeRecord ==
    Op("copy_stat_into_wasm") =>
        /\ call.outcome = "returned"
        /\ AllFieldsSet(Args.buf)
        /\ WrittenAddrs = Args.buf..(Args.buf + SizeOfGuestStat - 1)
        /\ BytesWritten = SizeOfGuestStat
        /\ \A a \in DOMAIN memory : a \notin WrittenAddrs => memory[a] = call.pre[a]

\* A stat written on an instance without runtime data.
C5_Witness ==
    /\ Op("copy_stat_into_wasm")
    /\ ~emscripten_data
    /\ call.outcome = "returned"
    /\ AllFieldsSet(Args.buf)
    /\ memory # call.pre

----------------------------------------------------------------------------
\* C6

\* C6: for a host stat with 64-bit inode I, the record's last field st_ino
\* holds I exactly, and its third field (after st_dev and its padding), the
\* truncated inode, holds I modulo 2^32: the four low base-256 digits of I.
\* Both are stored by the one call.
C6_InodeFullAndTruncated ==
    Op("copy_stat_into_wasm") =>
        LET buf == Args.buf
            I == Args.stat.st_ino
            last == Len(GuestStat)
        IN  /\ GuestStat[3][1] = "__st_ino_truncated"
            /\ GuestStat[last][1] = "st_ino"
            /\ LayoutOffset(3) = 8
            /\ MemBytes(memory, buf + LayoutOffset(last), 8) = I
            /\ \A k \in 1..4 : memory[buf + LayoutOffset(3) + k - 1] = I[k]
            /\ FieldSet(buf, 3)
            /\ FieldSet(buf, last)

\* An inode above 2^32 whose low half differs from its high half.
C6_Witness ==
    /\ Op("copy_stat_into_wasm")
    /\ Args.stat.st_ino = <<7, 0, 0, 0, 1, 0, 0, 0>>
    /\ Args.buf > 0
    /\ MemBytes(memory, Args.buf + 8, 4) = <<7, 0, 0, 0>>
    /\ MemBytes(memory, Args.buf + 72, 8) = <<7, 0, 0, 0, 1, 0, 0, 0>>

----------------------------------------------------------------------------
\* C7

\* The bytes a returned view of u8 elements shows.
ViewBytes(mem, view) == MemBytes(mem, view.ptr.off, FromBytes(view.count))

\* C7: with runtime data attached, allocate_cstr_on_stack(S) returns a view
\* of len(S)+1 bytes, S's bytes then a zero, with the offset the stack
\* allocator answered for it.
C7_StackStringView ==
    (Op("allocate_cstr_on_stack") /\ emscripten_data) =>
        LET S == Args.s
        IN  /\ call.outcome = "returned"
            /\ call.view.elem = 1
            /\ FromBytes(call.view.count) = Len(S) + 1
            /\ ViewBytes(memory, call.view) = S \o <<0>>
            /\ ViewBytes(memory, call.view)[Len(S) + 1] = 0
            /\ EventsOfKind("stack_alloc") = {1}
            /\ call.ret = call.events[1].ret
            /\ call.view.ptr = memory_offset_addr(0, call.ret)

\* A string with a NUL inside, placed at a non-zero offset over non-zero bytes.
C7_Witness ==
    /\ Op("allocate_cstr_on_stack")
    /\ emscripten_data
    /\ Args.s = <<104, 0>>
    /\ call.ret > 0
    /\ call.pre[call.ret + 2] # 0
    /\ ViewBytes(memory, call.view) = <<104, 0, 0>>

----------------------------------------------------------------------------
\* C8

\* C8 as stated: with runtime data attached, allocate_on_stack invokes the
\* stack allocator with element_count * element_size bytes and returns a view
\* of element_count elements, so the view's extent in bytes is the byte count
\* asked of the guest, also when the product does not fit in 32 bits.
C8_ViewExtentIsRequestedBytes ==
    (Op("allocate_on_stack") /\ emscripten_data) =>
        /\ call.outcome = "returned"
        /\ EventsOfKind("stack_alloc") = {1}
        /\ call.view.count = Args.count
        /\ call.view.elem = Args.size
        /\ WideMul(call.view.count, call.view.elem) = call.events[1].size \o <<0>>

----------------------------------------------------------------------------
\* C9

\* C9: write_to_buf stores exactly `max` bytes: afterwards guest bytes
\* [buf, buf + max) are the source's first `max` bytes, every other guest
\* byte is as before, and buf is returned; with max = 0 memory is unchanged.
C9_CopiesExactlyMaxBytes ==
    Op("write_to_buf") =>
        LET string == Args.string
            buf == Args.buf
            max == Args.max
        IN  /\ call.outcome = "returned"
            /\ call.ret = buf
            /\ BytesWritten = max
            /\ \A a \in DOMAIN memory :
                  memory[a] = IF a >= buf /\ a < buf + max
                              THEN string[a - buf + 1] ELSE call.pre[a]
            /\ (max = 0 => memory = call.pre)

\* Two bytes copied from a longer source whose third byte differs from what
\* guest memory held after the destination.
C9_Witness ==
    /\ Op("write_to_buf")
    /\ Args.string = <<104, 195, 169>>
    /\ Args.buf > 0
    /\ Args.max = 2
    /\ memory[Args.buf + 1] = 195
    /\ memory[Args.buf + 2] = call.pre[Args.buf + 2]
    /\ call.pre[Args.buf + 2] # 169

----------------------------------------------------------------------------
\* C10

\* C10: a copy_cstr_into_wasm that returns, for a string of length L, first
\* invokes malloc, once, with L+1; every store comes after it and lies in
\* [offset, offset + L] for the offset malloc answered, which is also the
\* value returned, 0 included; the stack allocator is not invoked.
C10_MallocOnceBeforeWrites ==
    (Op("copy_cstr_into_wasm") /\ call.outcome = "returned") =>
        LET L == Len(CStrFromPtr(Args.cstr))
        IN  /\ EventsOfKind("malloc") = {1}
            /\ EventsOfKind("stack_alloc") = {}
            /\ FromBytes(call.events[1].size) = L + 1
            /\ call.ret = call.events[1].ret
            /\ EventsOfKind("write") = 2..Len(call.events)
            /\ WrittenAddrs \subseteq call.ret..(call.ret + L)

\* malloc answers 0 for a one-byte string: the call stores at 0 and returns 0.
C10_Witness ==
    /\ Op("copy_cstr_into_wasm")
    /\ call.outcome = "returned"
    /\ Args.cstr = <<104, 0>>
    /\ call.events[1].ret = 0
    /\ call.ret = 0
    /\ memory[0] = 104
    /\ call.pre[0] # 104

====
